---- MODULE Spec2Model ----
(***************************************************************************)
(* Model of "LST and NDVI Atlanta.js": an Earth Engine script that filters *)
(* the Landsat 8 archive over Fulton County, derives the NDVI and LST      *)
(* bands, builds median composites and prints, for the whole area and for  *)
(* seven land-cover regions, a mean trend chart and a correlation chart.   *)
(*                                                                         *)
(* The script is straight-line code: pc walks through its statements in    *)
(* source order.  Its inputs are the archive (a scene sequence), the       *)
(* region geometries the Code Editor imports supply, and the platform's    *)
(* answer for a correlation whose denominator is zero.  Rasters are grids  *)
(* of NPix+1 pixels; band values are exact rationals.                      *)
(***************************************************************************)
EXTENDS Integers, Sequences, FiniteSets, TLC

VARIABLES archive, imports, pc, ridx, landsatCollection,
          trueColorImage, ndviImage, lstImage, layers, console

vars == <<archive, imports, pc, ridx, landsatCollection,
          trueColorImage, ndviImage, lstImage, layers, console>>

(***************************************************************************)
(* Bounds of the model.                                                    *)
(***************************************************************************)
\* Most scenes in the archive.
MaxScenes == 2
\* Pixels 1..NPix lie inside the study area; pixel 0 lies outside it.
NPix == 3

Grid == 0..NPix

(***************************************************************************)
(* Exact rational arithmetic for band values.                              *)
(***************************************************************************)
Abs(x) == IF x < 0 THEN -x ELSE x

RECURSIVE Gcd(_, _)
Gcd(a, b) == IF b = 0 THEN a ELSE Gcd(b, a % b)

Lcm(a, b) == (a \div Gcd(a, b)) * b

\* The rational n/d (d # 0) in lowest terms with a positive denominator.
Rat(n, d) ==
    LET s == IF d < 0 THEN -1 ELSE 1
        g == Gcd(Abs(n), Abs(d))
    IN  [n |-> (s * n) \div g, d |-> (s * d) \div g]

RatInt(k) == [n |-> k, d |-> 1]

RatAdd(a, b) ==
    LET l == Lcm(a.d, b.d)
    IN  Rat(a.n * (l \div a.d) + b.n * (l \div b.d), l)

RatNeg(a) == [n |-> -a.n, d |-> a.d]

RatSub(a, b) == RatAdd(a, RatNeg(b))

RatMul(a, b) ==
    LET g1 == Gcd(Abs(a.n), b.d)
        g2 == Gcd(Abs(b.n), a.d)
    IN  Rat((a.n \div g1) * (b.n \div g2), (a.d \div g2) * (b.d \div g1))

RatLess(a, b) ==
    LET l == Lcm(a.d, b.d)
    IN  a.n * (l \div a.d) < b.n * (l \div b.d)

\* ee.Image.divide and the "/" of an expression: the quotient, and 0 for a
\* division by 0.
RatDivide(a, b) ==
    IF b.n = 0 THEN RatInt(0) ELSE RatMul(a, Rat(b.d, b.n))

(***************************************************************************)
(* Pixels.  A pixel is masked (no data) or carries a rational value.       *)
(***************************************************************************)
NoData == [mask |-> FALSE, n |-> 0, d |-> 1]

Px(r) == [mask |-> TRUE, n |-> r.n, d |-> r.d]

Val(p) == [n |-> p.n, d |-> p.d]

\* Per-pixel operations of two bands: masked where either input is masked.
PxSubtract(p, q) ==
    IF p.mask /\ q.mask THEN Px(RatSub(Val(p), Val(q))) ELSE NoData

PxAdd(p, q) ==
    IF p.mask /\ q.mask THEN Px(RatAdd(Val(p), Val(q))) ELSE NoData

PxDivide(p, q) ==
    IF p.mask /\ q.mask THEN Px(RatDivide(Val(p), Val(q))) ELSE NoData

(***************************************************************************)
(* Images: properties, a footprint, band names in order, one grid a band.  *)
(***************************************************************************)
Range(s) == {s[i] : i \in DOMAIN s}

\* image.select(names): the named bands, in the order asked for.
Select(image, names) ==
    [image EXCEPT !.bands = names,
                  !.data = [b \in Range(names) |-> image.data[b]]]

\* A one-band image computed from `image`, named `name`.
Band(image, name, grid) ==
    [image EXCEPT !.bands = <<name>>, !.data = [b \in {name} |-> grid]]

\* img.multiply(c), img.add(c), img.subtract(c) on a one-band image.
MultiplyC(img, c) ==
    [img EXCEPT !.data = [b \in DOMAIN img.data |->
        [p \in Grid |-> IF img.data[b][p].mask THEN Px(RatMul(Val(img.data[b][p]), c)) ELSE NoData]]]

AddC(img, c) ==
    [img EXCEPT !.data = [b \in DOMAIN img.data |->
        [p \in Grid |-> IF img.data[b][p].mask THEN Px(RatAdd(Val(img.data[b][p]), c)) ELSE NoData]]]

SubtractC(img, c) ==
    [img EXCEPT !.data = [b \in DOMAIN img.data |->
        [p \in Grid |-> IF img.data[b][p].mask THEN Px(RatSub(Val(img.data[b][p]), c)) ELSE NoData]]]

\* img.rename(name) on a one-band image.
Rename(img, name) ==
    [img EXCEPT !.bands = <<name>>,
                !.data = [b \in {name} |-> img.data[img.bands[1]]]]

\* dst.addBands(src) for a one-band src: the band is appended; a name dst
\* already has gets the suffix _1 (overwrite is off).
AddBands(dst, src) ==
    LET b    == src.bands[1]
        name == IF b \in Range(dst.bands) THEN b \o "_1" ELSE b
    IN  [dst EXCEPT !.bands = Append(dst.bands, name),
                    !.data = [x \in Range(dst.bands) \cup {name} |->
                                 IF x = name THEN src.data[b]
                                 ELSE dst.data[x]]]

(***************************************************************************)
(* Band derivation.                                                        *)
(***************************************************************************)
\* image.expression('(NIR - RED) / (NIR + RED)', {NIR: SR_B5, RED: SR_B4})
NdviExpression(image) ==
    LET NIR == Select(image, <<"SR_B5">>).data["SR_B5"]
        RED == Select(image, <<"SR_B4">>).data["SR_B4"]
    IN  Band(image, "constant",
             [p \in Grid |->
                 PxDivide(PxSubtract(NIR[p], RED[p]), PxAdd(NIR[p], RED[p]))])

NdviScale == 100

addNdvi(image) ==
    AddBands(image,
             Rename(MultiplyC(NdviExpression(image), RatInt(NdviScale)), "NDVI"))

\* 0.00341802, 149.0 and 273 as rationals.
ScaleFactor == Rat(341802, 100000000)
KelvinOffset == 149
\* Mutant: 273.15 in place of 273.
CelsiusOffsetPrecise == Rat(27315, 100)
CelsiusOffset == RatInt(273)

\* Mutant: the LST band is returned alone, not added to the image.
addLSTOnly(image) ==
    Rename(SubtractC(AddC(MultiplyC(Select(image, <<"ST_B10">>), ScaleFactor),
                          RatInt(KelvinOffset)),
                     CelsiusOffset),
           "LST")

addLST(image) ==
    AddBands(image,
             Rename(SubtractC(AddC(MultiplyC(Select(image, <<"ST_B10">>),
                                             ScaleFactor),
                                   RatInt(KelvinOffset)),
                              CelsiusOffset),
                    "LST"))

(***************************************************************************)
(* Dates.  Timestamps are seconds since 1970-01-01T00:00:00Z.              *)
(***************************************************************************)
\* Days from 1970-01-01 to the civil date y-m-d.
DaysFromCivil(y, m, d) ==
    LET yy  == IF m <= 2 THEN y - 1 ELSE y
        era == yy \div 400
        yoe == yy - era * 400
        mp  == IF m > 2 THEN m - 3 ELSE m + 9
        doy == (153 * mp + 2) \div 5 + d - 1
        doe == yoe * 365 + yoe \div 4 - yoe \div 100 + doy
    IN  era * 146097 + doe - 719468

\* A date string 'yyyy-mm-dd' read as midnight UTC of that day.
ParseDate(y, m, d) == DaysFromCivil(y, m, d) * 86400

\* filterDate('2014-01-01', '2023-12-31')
StartDate == ParseDate(2014, 1, 1)
EndDate == ParseDate(2023, 12, 31)

\* ee.Filter.lt('CLOUD_COVER', 15)
CloudThreshold == 15

(***************************************************************************)
(* Inputs: the study area, the archive and the imported regions.           *)
(***************************************************************************)
\* Fulton County: every pixel of the grid but pixel 0.
atlGeom == 1..NPix

\* The regions the script names, in the order it first uses them.
RegionOrder ==
    <<"urban", "resArea", "highways", "commercial", "vegetation",
      "waterbodies", "bareSoil">>

\* The geometry an import supplies for a region name.
RegionGeom(name) ==
    CASE name = "urban"       -> {1}
      [] name = "resArea"     -> {1, 2}
      [] name = "highways"    -> {2}
      [] name = "commercial"  -> 2..NPix
      [] name = "vegetation"  -> 1..NPix
      [] name = "waterbodies" -> {NPix}
      [] name = "bareSoil"    -> {0, NPix}

\* The raw bands of the LANDSAT/LC08/C02/T1_L2 schema the script reads.
RawBands == <<"SR_B2", "SR_B3", "SR_B4", "SR_B5", "ST_B10">>

Tiles == {"anti", "flat", "mixed", "partial", "outside"}

\* Where a tile has a footprint, and where it has valid pixels.
TileFootprint(tile) ==
    CASE tile = "partial" -> {0, 1}
      [] tile = "outside" -> {0}
      [] OTHER            -> Grid

\* The raw digital number of band b at pixel p of a tile.
\*   anti:  NDVI falls and the thermal band rises linearly with p;
\*   flat:  NIR = RED and a constant thermal band, NIR = RED = 0 at pixel NPix;
\*   mixed: neither.
TileDN(tile, b, p) ==
    CASE b = "SR_B2" -> 10
      [] b = "SR_B3" -> 20 + p
      [] b = "SR_B4" ->
           (CASE tile = "flat"  -> 10 * ((p + 1) % (NPix + 1))
              [] tile = "mixed" -> IF p % 2 = 1 THEN 10 ELSE 30
              [] OTHER          -> 10 * p)
      [] b = "SR_B5" ->
           (CASE tile = "flat"  -> 10 * ((p + 1) % (NPix + 1))
              [] tile = "mixed" -> IF p % 2 = 1 THEN 30 ELSE 10
              [] OTHER          -> 10 * (NPix + 1 - p))
      [] b = "ST_B10" ->
           (CASE tile = "flat"  -> 30000
              [] tile = "mixed" -> 30000 + 5000 * ((p * p) % 3)
              [] OTHER          -> 30000 + 5000 * p)

Times == {StartDate - 1, StartDate, EndDate - 1, EndDate}
Clouds == {CloudThreshold - 1, CloudThreshold}

\* Scene descriptions.  The filter drops a scene at the cloud threshold
\* whatever its pixels are, so one tile stands for such scenes.
SceneSpecs ==
    {s \in [time : Times, cloud : Clouds, tile : Tiles] :
        s.cloud = CloudThreshold => s.tile = "anti"}

\* The archive image a scene description stands for; id is its position.
MkScene(spec, id) ==
    [id          |-> id,
     time_start  |-> spec.time,
     CLOUD_COVER |-> spec.cloud,
     footprint   |-> TileFootprint(spec.tile),
     bands       |-> RawBands,
     data        |-> [b \in Range(RawBands) |->
                        [p \in Grid |->
                            IF p \in TileFootprint(spec.tile)
                            THEN Px(RatInt(TileDN(spec.tile, b, p)))
                            ELSE NoData]]]

\* Archives: at most MaxScenes scenes, in ascending order of timestamp.
ArchivesOfLen(k) ==
    {[i \in 1..k |-> MkScene(f[i], i)] :
        f \in {g \in [1..k -> SceneSpecs] :
                  \A i \in 1..(k - 1) : g[i].time < g[i + 1].time}}

Archives == UNION {ArchivesOfLen(k) : k \in 0..MaxScenes}

\* The imports a run may have: none (the file as listed), some, or all of
\* the regions the script names.
ImportSets == {{}, {"urban", "resArea"}, Range(RegionOrder)}

(***************************************************************************)
(* Scene Filter (lines 85-88).                                             *)
(***************************************************************************)
Intersects(image, geom) == image.footprint \cap geom # {}

InDateRange(image, start, end) ==
    start <= image.time_start /\ image.time_start < end

\* Mutant: the threshold itself passes the filter.
FilterLte(image, property, value) == image[property] <= value

\* ee.Filter.lt(property, value)
FilterLt(image, property, value) == image[property] < value

filterBounds(coll, geom) ==
    LET Keep(image) == Intersects(image, geom) IN SelectSeq(coll, Keep)

filterDate(coll, start, end) ==
    LET Keep(image) == InDateRange(image, start, end) IN SelectSeq(coll, Keep)

filterCloud(coll) ==
    LET Keep(image) == FilterLt(image, "CLOUD_COVER", CloudThreshold)
    IN  SelectSeq(coll, Keep)

\* collection.map(f)
MapNdvi(coll) == [i \in DOMAIN coll |-> addNdvi(coll[i])]
MapLST(coll) == [i \in DOMAIN coll |-> addLST(coll[i])]

BuildLandsatCollection(arch) ==
    MapLST(MapNdvi(filterCloud(filterDate(filterBounds(arch, atlGeom),
                                          StartDate, EndDate))))

(***************************************************************************)
(* Composite Builder (lines 98-102).                                       *)
(***************************************************************************)
NoImage == [bands |-> <<>>, data |-> <<>>]

\* The valid values of a band at pixel p across the collection, in order.
RECURSIVE ValidValues(_, _, _)
ValidValues(coll, b, p) ==
    IF coll = <<>> THEN <<>>
    ELSE (IF Head(coll).data[b][p].mask
          THEN <<Val(Head(coll).data[b][p])>> ELSE <<>>)
         \o ValidValues(Tail(coll), b, p)

\* Mutant: the lower of the two central values of an even count.
MedianLower(values) ==
    LET s == SortSeq(values, RatLess) IN s[(Len(s) + 1) \div 2]

\* ee.Reducer.median() on a non-empty list: the central value, or the mean of
\* the two central values.
Median(values) ==
    LET s == SortSeq(values, RatLess)
        k == Len(s)
    IN  IF k % 2 = 1 THEN s[(k + 1) \div 2]
        ELSE RatMul(RatAdd(s[k \div 2], s[k \div 2 + 1]), Rat(1, 2))

\* collection.select(names).median(): per band and pixel, the median of the
\* valid values; masked where there is none.  An empty collection reduces to
\* an image without bands.
median(coll, names) ==
    IF coll = <<>> THEN NoImage
    ELSE [bands |-> names,
          data  |-> [b \in Range(names) |->
                       [p \in Grid |->
                           LET v == ValidValues(coll, b, p)
                           IN  IF v = <<>> THEN NoData ELSE Px(Median(v))]]]

\* image.clip(geom): masked outside the geometry.
clip(image, geom) ==
    [image EXCEPT !.data = [b \in DOMAIN image.data |->
        [p \in Grid |-> IF p \in geom THEN image.data[b][p] ELSE NoData]]]

(***************************************************************************)
(* Zonal reducers and charts (lines 148-185 and the seven region blocks).   *)
(***************************************************************************)
RECURSIVE SetSum(_, _)
SetSum(f, S) ==
    IF S = {} THEN 0
    ELSE LET p == CHOOSE q \in S : TRUE IN f[p] + SetSum(f, S \ {p})

RECURSIVE SetGcd(_, _)
SetGcd(f, S) ==
    IF S = {} THEN 0
    ELSE LET p == CHOOSE q \in S : TRUE IN Gcd(Abs(f[p]), SetGcd(f, S \ {p}))

RECURSIVE SetLcm(_, _)
SetLcm(f, S) ==
    IF S = {} THEN 1
    ELSE LET p == CHOOSE q \in S : TRUE IN Lcm(f[p], SetLcm(f, S \ {p}))

RECURSIVE RatSum(_, _)
RatSum(f, S) ==
    IF S = {} THEN RatInt(0)
    ELSE LET p == CHOOSE q \in S : TRUE IN RatAdd(Val(f[p]), RatSum(f, S \ {p}))

\* The pixels of the region where the band has data.
ValidIn(grid, region) == {p \in region \cap Grid : grid[p].mask}

\* ee.Reducer.mean() over a region: null when no pixel has data.
MeanReduce(grid, region) ==
    LET P == ValidIn(grid, region)
    IN  IF P = {} THEN NoData
        ELSE Px(RatDivide(RatSum(grid, P), RatInt(Cardinality(P))))

\* A correlation entry: no data, or the coefficient r given by its sign and
\* the rational n/d = r^2.
NullStat == [kind |-> "nodata", sgn |-> 0, n |-> 0, d |-> 1]
RStat(sgn, sq) == [kind |-> "r", sgn |-> sgn, n |-> sq.n, d |-> sq.d]

\* The reducer's answer when the denominator of r is zero.  The script has
\* no guard for this case and nothing in it decides the answer: it is kept
\* as a value of its own, neither no-data nor a coefficient.
UndefinedStat == [kind |-> "undefined", sgn |-> 0, n |-> 0, d |-> 1]

Sign(x) == IF x < 0 THEN -1 ELSE IF x > 0 THEN 1 ELSE 0

\* The deviations N*x[p] - SUM x of the values of a grid over P, as integer
\* multiples of their largest common unit (r does not depend on the unit);
\* all 0 when the values do not vary.
Deviations(grid, P) ==
    LET l   == SetLcm([p \in P |-> grid[p].d], P)
        a   == [p \in P |-> grid[p].n * (l \div grid[p].d)]
        dev == [p \in P |-> Cardinality(P) * a[p] - SetSum(a, P)]
        g   == SetGcd(dev, P)
    IN  [p \in P |-> IF g = 0 THEN 0 ELSE dev[p] \div g]

\* ee.Reducer.pearsonsCorrelation() over the pixel pairs of a region:
\* r = SUM dx*dy / sqrt(SUM dx^2 * SUM dy^2) over the pixels where both bands
\* have data; null without any pair.
PearsonReduce(gx, gy, region) ==
    LET P   == ValidIn(gx, region) \cap ValidIn(gy, region)
        dx  == Deviations(gx, P)
        dy  == Deviations(gy, P)
        cov == SetSum([p \in P |-> dx[p] * dy[p]], P)
        vx  == SetSum([p \in P |-> dx[p] * dx[p]], P)
        vy  == SetSum([p \in P |-> dy[p] * dy[p]], P)
    IN  IF P = {} THEN NullStat
        ELSE IF vx = 0 \/ vy = 0 THEN UndefinedStat
        ELSE RStat(Sign(cov), Rat(cov * cov, vx * vy))

\* Lexicographic order of the band names.
AlphaRank(name) ==
    CASE name = "LST"    -> 1
      [] name = "NDVI"   -> 2
      [] name = "SR_B2"  -> 3
      [] name = "SR_B3"  -> 4
      [] name = "SR_B4"  -> 5
      [] name = "SR_B5"  -> 6
      [] name = "ST_B10" -> 7

AlphaLess(a, b) == AlphaRank(a) < AlphaRank(b)

\* Mutant: the series keep the order in which the bands were selected.
SeriesOrderAsSelected(names) == names

\* The series of a chart of per-band reductions: one per band, in the order
\* of the keys of the reduction's dictionary, which is alphabetical.
SeriesOrder(names) == SortSeq(names, AlphaLess)

\* collection.select(names)
SelectAll(coll, names) == [i \in DOMAIN coll |-> Select(coll[i], names)]

\* Mutant: an image without data in the region gets no row.
MeanSeriesRowsDropNull(coll, region) ==
    LET HasData(image) ==
            \E b \in Range(image.bands) : ValidIn(image.data[b], region) # {}
        kept == SelectSeq(coll, HasData)
    IN  [i \in DOMAIN kept |->
            [x |-> kept[i].time_start,
             y |-> LET cols == SeriesOrder(kept[i].bands)
                   IN  [c \in DOMAIN cols |->
                           MeanReduce(kept[i].data[cols[c]], region)]]]

\* ui.Chart.image.series with ee.Reducer.mean(): one row an image, in
\* collection order, x the image's system:time_start.
MeanSeriesRows(coll, region) ==
    [i \in DOMAIN coll |->
        [x |-> coll[i].time_start,
         y |-> LET cols == SeriesOrder(coll[i].bands)
               IN  [c \in DOMAIN cols |->
                       MeanReduce(coll[i].data[cols[c]], region)]]]

\* chart.setSeriesNames(names): the series are renamed by position.
setSeriesNames(chart, names) == [chart EXCEPT !.series = names]

MeanChart(coll, names, regionName, region, seriesNames) ==
    setSeriesNames(
        [kind |-> "chart", reducer |-> "mean", regionName |-> regionName,
         region |-> region, series |-> SeriesOrder(names),
         rows |-> MeanSeriesRows(SelectAll(coll, names), region)],
        seriesNames)

\* Mutant: one coefficient over the pixel pairs of the first image, repeated
\* for every image.
CorrelSeriesRowsFirst(coll, region) ==
    [i \in DOMAIN coll |->
        [x |-> coll[i].time_start,
         y |-> <<PearsonReduce(coll[1].data[coll[1].bands[1]],
                               coll[1].data[coll[1].bands[2]],
                               region)>>]]

\* ui.Chart.image.series with ee.Reducer.pearsonsCorrelation(): the two
\* bands of each image are the reducer's two inputs.  (The reducer's second
\* output, the p-value, is not modelled.)
CorrelSeriesRows(coll, region) ==
    [i \in DOMAIN coll |->
        [x |-> coll[i].time_start,
         y |-> <<PearsonReduce(coll[i].data[coll[i].bands[1]],
                               coll[i].data[coll[i].bands[2]],
                               region)>>]]

CorrelChart(coll, names, regionName, region) ==
    [kind |-> "chart", reducer |-> "pearson", regionName |-> regionName,
     region |-> region, series |-> <<"correlation">>,
     rows |-> CorrelSeriesRows(SelectAll(coll, names), region)]

\* print(value, label) of something that is not a chart.
Printed(label, value) ==
    [kind |-> "value", reducer |-> "", regionName |-> label, region |-> {},
     series |-> value, rows |-> <<>>]

Layer(name, image) == [name |-> name, image |-> image]

(***************************************************************************)
(* The script, statement by statement.                                     *)
(***************************************************************************)
Init ==
    /\ archive \in Archives
    /\ imports \in ImportSets
    /\ pc = "boundary"
    /\ ridx = 1
    /\ landsatCollection = <<>>
    /\ trueColorImage = NoImage
    /\ ndviImage = NoImage
    /\ lstImage = NoImage
    /\ layers = <<>>
    /\ console = <<>>

\* Lines 14-33: the boundary lookup, the count of Fultons (a value of the
\* boundary dataset, not modelled) and the boundary layer.
Boundary ==
    /\ pc = "boundary"
    /\ console' = Append(console, Printed("No. of Fultons in the world", <<>>))
    /\ layers' = Append(layers, Layer("City Boundary", NoImage))
    /\ pc' = "collection"
    /\ UNCHANGED <<archive, imports, ridx, landsatCollection,
                   trueColorImage, ndviImage, lstImage>>

\* Lines 85-93: filter, derive, print the size.
Collection ==
    /\ pc = "collection"
    /\ landsatCollection' = BuildLandsatCollection(archive)
    /\ console' = Append(console,
                         Printed("size of image collection:",
                                 <<Len(landsatCollection')>>))
    /\ pc' = "composites"
    /\ UNCHANGED <<archive, imports, ridx, trueColorImage,
                   ndviImage, lstImage, layers>>

\* Lines 98-102: the three median composites, clipped to the study area.
Composites ==
    /\ pc = "composites"
    /\ trueColorImage' =
           clip(median(landsatCollection, <<"SR_B4", "SR_B3", "SR_B2">>), atlGeom)
    /\ ndviImage' = clip(median(landsatCollection, <<"NDVI">>), atlGeom)
    /\ lstImage' = clip(median(landsatCollection, <<"LST">>), atlGeom)
    /\ pc' = "layers"
    /\ UNCHANGED <<archive, imports, ridx, landsatCollection,
                   layers, console>>

\* Lines 138-142: the three composite layers.
MapLayers ==
    /\ pc = "layers"
    /\ layers' = layers \o <<Layer("True Color Composite", trueColorImage),
                             Layer("NDVI Composite", ndviImage),
                             Layer("LST Composite", lstImage)>>
    /\ pc' = "atlTrnd"
    /\ UNCHANGED <<archive, imports, ridx, landsatCollection,
                   trueColorImage, ndviImage, lstImage, console>>

\* Lines 148-169: the trend chart of the whole area.
AtlTrnd ==
    /\ pc = "atlTrnd"
    /\ console' = Append(console,
                         MeanChart(landsatCollection, <<"NDVI", "LST">>,
                                   "atlGeom", atlGeom, <<"LST", "NDVI">>))
    /\ pc' = "atlCorrel"
    /\ UNCHANGED <<archive, imports, ridx, landsatCollection,
                   trueColorImage, ndviImage, lstImage, layers>>

\* Lines 172-185: the correlation chart of the whole area.
AtlCorrel ==
    /\ pc = "atlCorrel"
    /\ console' = Append(console,
                         CorrelChart(landsatCollection, <<"LST", "NDVI">>,
                                     "atlGeom", atlGeom))
    /\ pc' = "regionTrnd"
    /\ UNCHANGED <<archive, imports, ridx, landsatCollection,
                   trueColorImage, ndviImage, lstImage, layers>>

\* Lines 189-210, 232-253, ..., 447-468: the trend chart of the ridx-th
\* region, whose name is bound by an import.
RegionTrnd ==
    /\ pc = "regionTrnd"
    /\ RegionOrder[ridx] \in imports
    /\ console' = Append(console,
                         MeanChart(landsatCollection, <<"NDVI", "LST">>,
                                   RegionOrder[ridx],
                                   RegionGeom(RegionOrder[ridx]),
                                   <<"LST", "NDVI">>))
    /\ pc' = "regionCorrel"
    /\ UNCHANGED <<archive, imports, ridx, landsatCollection,
                   trueColorImage, ndviImage, lstImage, layers>>

\* The same statement when no import binds the name: evaluating it throws a
\* ReferenceError and the script stops.
ReferenceError ==
    /\ pc \in {"regionTrnd", "regionCorrel"}
    /\ RegionOrder[ridx] \notin imports
    /\ pc' = "failed"
    /\ UNCHANGED <<archive, imports, ridx, landsatCollection,
                   trueColorImage, ndviImage, lstImage, layers, console>>

\* Lines 213-226, 256-269, ..., 471-484: the correlation chart of the
\* ridx-th region.
RegionCorrel ==
    /\ pc = "regionCorrel"
    /\ RegionOrder[ridx] \in imports
    /\ console' = Append(console,
                         CorrelChart(landsatCollection, <<"LST", "NDVI">>,
                                     RegionOrder[ridx],
                                     RegionGeom(RegionOrder[ridx])))
    /\ IF ridx < Len(RegionOrder)
       THEN pc' = "regionTrnd" /\ ridx' = ridx + 1
       ELSE pc' = "done" /\ ridx' = ridx
    /\ UNCHANGED <<archive, imports, landsatCollection,
                   trueColorImage, ndviImage, lstImage, layers>>

Next ==
    \/ Boundary
    \/ Collection
    \/ Composites
    \/ MapLayers
    \/ AtlTrnd
    \/ AtlCorrel
    \/ RegionTrnd
    \/ ReferenceError
    \/ RegionCorrel

Spec == Init /\ [][Next]_vars

(***************************************************************************)
(* Properties.                                                             *)
(***************************************************************************)
\* The collection has been built.
Built == pc \notin {"boundary", "collection"}

\* The composites have been built.
Composited == pc \notin {"boundary", "collection", "composites"}

InCollection(id) == \E j \in DOMAIN landsatCollection : landsatCollection[j].id = id

Charts(reducer) ==
    {console[k] : k \in {m \in DOMAIN console :
                            console[m].kind = "chart" /\ console[m].reducer = reducer}}

\* C1: the collection holds exactly the archive scenes that intersect the
\* study area, were taken at a time t with start <= t < end and have a cloud
\* cover strictly below the threshold, in archive order; so a scene at the
\* threshold or taken at `end` is left out, and a scene taken at `start`
\* that meets the other two conditions is kept.
C1_SceneFilter ==
    Built =>
      /\ \A i \in DOMAIN archive :
            InCollection(archive[i].id) <=>
              /\ archive[i].footprint \cap atlGeom # {}
              /\ StartDate <= archive[i].time_start
              /\ archive[i].time_start < EndDate
              /\ archive[i].CLOUD_COVER < CloudThreshold
      /\ \A i \in DOMAIN archive :
            /\ archive[i].CLOUD_COVER = CloudThreshold => ~InCollection(archive[i].id)
            /\ archive[i].time_start = EndDate => ~InCollection(archive[i].id)
            /\ ( /\ archive[i].time_start = StartDate
                 /\ archive[i].CLOUD_COVER < CloudThreshold
                 /\ archive[i].footprint \cap atlGeom # {} )
               => InCollection(archive[i].id)
      /\ \A j, k \in DOMAIN landsatCollection :
            j < k => landsatCollection[j].id < landsatCollection[k].id

\* A scene taken at `start` is kept while a scene taken at `end`, which is
\* clear and inside the area, is left out.
C1_Witness ==
    /\ Built
    /\ \E i, j \in DOMAIN archive :
          /\ archive[i].time_start = StartDate
          /\ InCollection(archive[i].id)
          /\ archive[j].time_start = EndDate
          /\ archive[j].CLOUD_COVER < CloudThreshold
          /\ archive[j].footprint \cap atlGeom # {}
          /\ ~InCollection(archive[j].id)

\* C9: every step leaves the archive as it was, and every scene of the
\* collection carries the bands of its archive scene, with their values and
\* the scene's properties unchanged, followed by exactly NDVI and LST; so
\* SR_B4, SR_B3 and SR_B2 are there for the true-colour composite.
C9_BandsAppended ==
    [][ /\ archive' = archive
        /\ Built' =>
             \A j \in DOMAIN landsatCollection' :
                LET img == landsatCollection'[j]
                    src == archive[img.id]
                IN  /\ img.bands = src.bands \o <<"NDVI", "LST">>
                    /\ DOMAIN img.data = Range(img.bands)
                    /\ \A b \in Range(src.bands) : img.data[b] = src.data[b]
                    /\ img.time_start = src.time_start
                    /\ img.CLOUD_COVER = src.CLOUD_COVER
                    /\ img.footprint = src.footprint
                    /\ {"SR_B4", "SR_B3", "SR_B2"} \subseteq Range(img.bands) ]_vars

\* The collection holds a derived scene with data in its raw bands.
C9_Witness ==
    /\ pc = "composites"
    /\ \E j \in DOMAIN landsatCollection :
          \E p \in Grid : landsatCollection[j].data["SR_B4"][p].mask

\* C6: LST = DN * 0.00341802 + 149.0 - 273 for every thermal digital number
\* DN of the collection: in units of 0.0001 degree, (DN / 5000) * 170901 -
\* 1240000 for the multiples of 5000 the model draws DN from; and
\* LST(30000) = -21.4594.
C6_LstFormula ==
    Built =>
      \A j \in DOMAIN landsatCollection : \A p \in Grid :
         LET dn  == landsatCollection[j].data["ST_B10"][p]
             lst == landsatCollection[j].data["LST"][p]
         IN  dn.mask =>
               /\ lst.mask
               /\ dn.d = 1 /\ dn.n % 5000 = 0
               /\ 10000 % lst.d = 0
               /\ lst.n * (10000 \div lst.d) = (dn.n \div 5000) * 170901 - 1240000
               /\ dn.n = 30000 => lst.n * (10000 \div lst.d) = -214594

\* A scene of the collection has a pixel with the digital number 30000.
C6_Witness ==
    /\ Built
    /\ \E j \in DOMAIN landsatCollection : \E p \in Grid :
          /\ landsatCollection[j].data["ST_B10"][p] = Px(RatInt(30000))
          /\ landsatCollection[j].data["LST"][p] = Px(Rat(-214594, 10000))

\* The scenes of the collection with data in band b at pixel p.
Contributors(b, p) ==
    {j \in DOMAIN landsatCollection : landsatCollection[j].data[b][p].mask}

\* v is the k-th smallest of the values band b has at pixel p.
IsOrderStatistic(v, k, b, p) ==
    LET J == Contributors(b, p)
        x == [j \in J |-> Val(landsatCollection[j].data[b][p])]
    IN  /\ \E j \in J : x[j] = v
        /\ Cardinality({j \in J : RatLess(x[j], v)}) < k
        /\ k <= Cardinality({j \in J : ~RatLess(v, x[j])})

\* The composite pixel m is the median of band b at pixel p: no data without
\* contributors, else the mean of the two central values (which are one and
\* the same value when the count is odd).
IsMedianPixel(m, b, p) ==
    LET n == Cardinality(Contributors(b, p))
    IN  IF n = 0 THEN ~m.mask
        ELSE /\ m.mask
             /\ \E i, j \in Contributors(b, p) :
                   LET lo == Val(landsatCollection[i].data[b][p])
                       hi == Val(landsatCollection[j].data[b][p])
                   IN  /\ IsOrderStatistic(lo, (n + 1) \div 2, b, p)
                       /\ IsOrderStatistic(hi, n \div 2 + 1, b, p)
                       /\ RatAdd(Val(m), Val(m)) = RatAdd(lo, hi)

CompositeOk(image, names) ==
    IF landsatCollection = <<>> THEN image = NoImage
    ELSE /\ image.bands = names
         /\ \A b \in Range(names) : \A p \in Grid :
               IF p \in atlGeom THEN IsMedianPixel(image.data[b][p], b, p)
               ELSE ~image.data[b][p].mask

\* C7: in every composited band, each pixel of the study area is the median
\* of the valid values the scenes of the collection have there, the mean of
\* the two central values when their count is even, and no data when no
\* scene has a valid value there.
C7_MedianComposite ==
    Composited =>
      /\ CompositeOk(trueColorImage, <<"SR_B4", "SR_B3", "SR_B2">>)
      /\ CompositeOk(ndviImage, <<"NDVI">>)
      /\ CompositeOk(lstImage, <<"LST">>)

\* A pixel where exactly two scenes contribute, with the red values 10 and
\* 20, has the composite value 15.
C7_Witness ==
    /\ Composited
    /\ \E p \in atlGeom :
          /\ Contributors("SR_B4", p) = {1, 2}
          /\ {Val(landsatCollection[j].data["SR_B4"][p]) : j \in {1, 2}}
                = {RatInt(10), RatInt(20)}
          /\ trueColorImage.data["SR_B4"][p] = Px(RatInt(15))

\* The pixels of a region where scene j of the collection has both bands.
PairsIn(j, region) ==
    {p \in region \cap Grid :
        /\ landsatCollection[j].data["LST"][p].mask
        /\ landsatCollection[j].data["NDVI"][p].mask}

\* C2: every chart printed so far, mean or correlation, has exactly one row
\* for each scene of the collection, in collection order, which is the
\* ascending order of the timestamps; the row of a scene without a valid
\* pixel in the chart's region holds no data.
C2_OneRowPerScene ==
    \A ch \in Charts("mean") \cup Charts("pearson") :
       /\ Len(ch.rows) = Len(landsatCollection)
       /\ \A i \in DOMAIN ch.rows :
             /\ ch.rows[i].x = landsatCollection[i].time_start
             /\ \A k \in DOMAIN ch.rows : i < k => ch.rows[i].x < ch.rows[k].x
             /\ PairsIn(i, ch.region) = {} =>
                  \A c \in DOMAIN ch.rows[i].y :
                     IF ch.reducer = "mean" THEN ch.rows[i].y[c] = NoData
                     ELSE ch.rows[i].y[c] = NullStat

\* A mean chart and a correlation chart over two scenes, one of which has no
\* valid pixel in the region.
C2_Witness ==
    /\ Len(landsatCollection) = 2
    /\ \E ch \in Charts("mean") : \E i \in DOMAIN ch.rows :
          PairsIn(i, ch.region) = {} /\ ch.rows[i].y = <<NoData, NoData>>
    /\ \E ch \in Charts("pearson") : \E i \in DOMAIN ch.rows :
          PairsIn(i, ch.region) = {} /\ ch.rows[i].y = <<NullStat>>

\* The textbook sums over the pixel pairs P of scene j, with x the thermal
\* digital number in steps of 5000 (LST is an increasing linear function of
\* it, so both give the same r) and y the NDVI in its smallest common unit.
PairSums(j, P) ==
    LET img == landsatCollection[j]
        l   == SetLcm([p \in P |-> img.data["NDVI"][p].d], P)
        x   == [p \in P |-> img.data["ST_B10"][p].n \div 5000]
        y   == [p \in P |-> img.data["NDVI"][p].n * (l \div img.data["NDVI"][p].d)]
        n   == Cardinality(P)
    IN  [x   |-> x,
         y   |-> y,
         cov |-> n * SetSum([p \in P |-> x[p] * y[p]], P) - SetSum(x, P) * SetSum(y, P),
         vx  |-> n * SetSum([p \in P |-> x[p] * x[p]], P) - SetSum(x, P) * SetSum(x, P),
         vy  |-> n * SetSum([p \in P |-> y[p] * y[p]], P) - SetSum(y, P) * SetSum(y, P)]

\* At least 3 pairs, x rising and y falling along one line.
AntiCorrelated(j, P) ==
    LET s == PairSums(j, P)
    IN  /\ Cardinality(P) >= 3
        /\ \A p, q \in P : p # q => s.x[p] # s.x[q]
        /\ \A p, q \in P : s.x[p] < s.x[q] => s.y[p] > s.y[q]
        /\ \A p, q, u \in P :
              (s.x[q] - s.x[p]) * (s.y[u] - s.y[p])
                 = (s.x[u] - s.x[p]) * (s.y[q] - s.y[p])

\* C3: in every correlation chart, the entry of a scene whose pixel pairs
\* in the region vary in both bands is Pearson's r over those pairs alone,
\* r = cov / sqrt(vx * vy); it is -1 when the pairs (3 or more) lie on a
\* falling line.
C3_PearsonPerScene ==
    \A ch \in Charts("pearson") : \A i \in DOMAIN ch.rows :
       LET P == PairsIn(i, ch.region)
           s == PairSums(i, P)
           e == ch.rows[i].y[1]
       IN  /\ (P # {} /\ s.vx # 0 /\ s.vy # 0) =>
                /\ e.kind = "r"
                /\ e.sgn = Sign(s.cov)
                /\ Rat(e.n, e.d) = Rat(s.cov * s.cov, s.vx * s.vy)
           /\ AntiCorrelated(i, P) => e = RStat(-1, RatInt(1))

\* A correlation chart over two scenes: an entry of -1 for a scene with 3
\* pairs on a falling line, beside another entry.
C3_Witness ==
    \E ch \in Charts("pearson") : \E i, k \in DOMAIN ch.rows :
       /\ AntiCorrelated(i, PairsIn(i, ch.region))
       /\ ch.rows[i].y[1] = RStat(-1, RatInt(1))
       /\ ch.rows[k].y[1].kind = "r"
       /\ ch.rows[k].y[1] # ch.rows[i].y[1]

\* The value the series called `name` has in row i of a chart.
SeriesValue(ch, name, i) ==
    ch.rows[i].y[CHOOSE c \in DOMAIN ch.series : ch.series[c] = name]

\* v is the mean of band b of scene j over the region: no data without a
\* valid pixel, else v * count = sum.
IsRegionalMean(v, b, j, region) ==
    LET grid == landsatCollection[j].data[b]
        P    == {p \in region \cap Grid : grid[p].mask}
    IN  IF P = {} THEN v = NoData
        ELSE /\ v.mask
             /\ RatMul(Val(v), RatInt(Cardinality(P))) = RatSum(grid, P)

\* C10: in every trend chart, the series called LST holds the regional mean
\* of the LST band and the series called NDVI that of the NDVI band, for
\* every scene.
C10_SeriesNames ==
    \A ch \in Charts("mean") :
       /\ ch.series = <<"LST", "NDVI">>
       /\ \A i \in DOMAIN ch.rows :
             /\ IsRegionalMean(SeriesValue(ch, "LST", i), "LST", i, ch.region)
             /\ IsRegionalMean(SeriesValue(ch, "NDVI", i), "NDVI", i, ch.region)

\* A trend chart of an imported region with a row whose two means differ.
C10_Witness ==
    \E ch \in Charts("mean") : \E i \in DOMAIN ch.rows :
       /\ ch.regionName = "bareSoil"
       /\ SeriesValue(ch, "LST", i).mask
       /\ SeriesValue(ch, "NDVI", i).mask
       /\ SeriesValue(ch, "LST", i) # SeriesValue(ch, "NDVI", i)

\* C5 as claimed: NDVI is 0 where NIR = RED # 0, and no data wherever
\* NIR + RED = 0.
C5_NdviTotal ==
    Built =>
      \A j \in DOMAIN landsatCollection : \A p \in Grid :
         LET NIR  == landsatCollection[j].data["SR_B5"][p]
             RED  == landsatCollection[j].data["SR_B4"][p]
             ndvi == landsatCollection[j].data["NDVI"][p]
         IN  /\ (NIR.mask /\ RED.mask /\ NIR = RED /\ NIR.n # 0) =>
                  ndvi = Px(RatInt(0))
             /\ NIR.n + RED.n = 0 => ~ndvi.mask

\* C8 as claimed: a run that fails on a name no import binds has produced
\* no composite, no layer and no chart.
C8_FailFast ==
    pc = "failed" =>
      /\ layers = <<>>
      /\ console = <<>>
      /\ trueColorImage = NoImage /\ ndviImage = NoImage /\ lstImage = NoImage

====
